---- MODULE Spec2Model ----
(***************************************************************************)
(* The branch-aware RepositoryExplorer component (src/unnamed/part_002)    *)
(* as a state machine: the React state of the component, the handler       *)
(* invocations that are suspended at an await (tasks), and the GitHub      *)
(* repository they talk to.  One action is one synchronous run of          *)
(* component code: an event handler or the continuation of an await,       *)
(* together with the effects of the render that it causes.                 *)
(***************************************************************************)
EXTENDS Bags, FiniteSets, Integers, Sequences, TLC

VARIABLES
  mounted,          \* the mount effects have run
  hasToken,         \* token !== ''                          (part_002:76)
  files,            \* useState<RepoFile[]>                  (part_002:59)
  selectedFile,     \* useState<FileContent | null>          (part_002:60)
  loading,          \* part_002:61
  error,            \* part_002:62
  isEditing,        \* part_002:63
  editedContent,    \* part_002:64
  commitMessage,    \* part_002:65
  saveLoading,      \* part_002:66
  branches,         \* part_002:67 (the branch names, in order)
  selectedBranch,   \* part_002:68
  branchLoading,    \* part_002:69
  expandedFolders,  \* part_002:70
  folderContents,   \* part_002:71
  isMdxEditorMode,  \* part_002:72
  mdxMarkdown,      \* the document held by the editor behind mdxEditorRef
  tasks,            \* bag of handler invocations suspended at an await
  remoteBranches,   \* the repository: its branch list
  remote,           \* the repository: bytes of every file, per branch
  events,           \* clicks that start a request, changes of the commit
                    \* message, failures in transit and commits by other
                    \* writers, so far
  listRequested,    \* folder paths whose listing has been requested since
                    \* selectedBranch last changed
  editSession,      \* path and sha of the snapshot startEditing last copied
  version,          \* which RepositoryExplorer the page renders
  \* the state of the explorer without branches
  \* (src/app/components/RepositoryExplorer.tsx:36-43)
  simpleMounted,    \* its mount effect has run
  repo,             \* :37
  simpleFiles,      \* files, :38
  simpleSelectedFile, \* selectedFile, :39
  currentPath,      \* :40
  simpleLoading,    \* loading, :41
  simpleError,      \* error, :42
  breadcrumbs,      \* :43
  simpleTasks       \* bag of its handler invocations suspended at an await

vars == <<mounted, hasToken, files, selectedFile, loading, error, isEditing,
          editedContent, commitMessage, saveLoading, branches, selectedBranch,
          branchLoading, expandedFolders, folderContents, isMdxEditorMode,
          mdxMarkdown, tasks, remoteBranches, remote, events,
          listRequested, editSession, version, simpleMounted, repo,
          simpleFiles, simpleSelectedFile, currentPath, simpleLoading,
          simpleError, breadcrumbs, simpleTasks>>

----------------------------------------------------------------------------
(* Bounds of the model *)

\* the environment takes at most MaxEvents steps that start or disturb a
\* request: a branch selection, a file click, a folder click that fetches, a
\* change of the commit message, a failure in transit, a commit by another
\* writer
MaxEvents == 2

\* the same for the explorer without branches, whose walk down to content/d
\* and back takes three clicks
MaxClicks == 4

----------------------------------------------------------------------------
(* Values *)

Null == "<null>"
NoFile == [name |-> "", path |-> "", content |-> <<>>, sha |-> 0, ref |-> ""]

\* texts are sequences of UTF-16 code units; the user types "e-acute" or an
\* em dash
Texts == {<<233>>, <<8212>>}
\* file bodies other writers commit
OtherBodies == {<<233>>}
\* what the user types into the commit message field
TypedMessages == {"  "}

----------------------------------------------------------------------------
(* base64: btoa, atob and the newline the Contents API appends *)

\* the symbols 0..63 are the base64 alphabet, 64 is '=', 65 is '\n'
EncodeGroup(b) ==
  IF Len(b) = 1 THEN <<b[1] \div 4, (b[1] % 4) * 16, 64, 64>>
  ELSE IF Len(b) = 2
    THEN <<b[1] \div 4, (b[1] % 4) * 16 + b[2] \div 16, (b[2] % 16) * 4, 64>>
    ELSE <<b[1] \div 4, (b[1] % 4) * 16 + b[2] \div 16,
           (b[2] % 16) * 4 + b[3] \div 64, b[3] % 64>>

RECURSIVE Base64Encode(_)
Base64Encode(b) ==
  IF Len(b) = 0 THEN <<>>
  ELSE IF Len(b) <= 3 THEN EncodeGroup(b)
  ELSE EncodeGroup(SubSeq(b, 1, 3)) \o Base64Encode(SubSeq(b, 4, Len(b)))

DecodeGroup(s) ==
  LET b1 == s[1] * 4 + s[2] \div 16
      b2 == (s[2] % 16) * 16 + s[3] \div 4
      b3 == (s[3] % 4) * 64 + s[4]
  IN  IF s[3] = 64 THEN <<b1>>
      ELSE IF s[4] = 64 THEN <<b1, b2>>
      ELSE <<b1, b2, b3>>

RECURSIVE Base64Decode(_)
Base64Decode(s) ==
  IF Len(s) < 4 THEN <<>>
  ELSE DecodeGroup(SubSeq(s, 1, 4)) \o Base64Decode(SubSeq(s, 5, Len(s)))

\* btoa throws InvalidCharacterError on a code unit above 0xFF
BtoaThrows(text) == \E i \in 1..Len(text) : text[i] > 255
btoa(text) == Base64Encode(text)
atob(s) == Base64Decode(s)

\* fileData.content.replace(/\n/g, '')
StripNewlines(s) == SelectSeq(s, LAMBDA c : c # 65)

----------------------------------------------------------------------------
(* strings *)

RECURSIVE TrimStart(_)
TrimStart(s) ==
  IF Len(s) > 0 /\ SubSeq(s, 1, 1) = " " THEN TrimStart(SubSeq(s, 2, Len(s)))
  ELSE s

RECURSIVE TrimEnd(_)
TrimEnd(s) ==
  IF Len(s) > 0 /\ SubSeq(s, Len(s), Len(s)) = " "
  THEN TrimEnd(SubSeq(s, 1, Len(s) - 1))
  ELSE s

\* String.prototype.trim
Trim(s) == TrimEnd(TrimStart(s))

EndsWith(s, suffix) ==
  Len(s) >= Len(suffix) /\ SubSeq(s, Len(s) - Len(suffix) + 1, Len(s)) = suffix

\* toLowerCase, on the file names of the model
ToLowerCase(s) == IF s = "b.MDX" THEN "b.mdx" ELSE s

isMdxFile(fileName) == EndsWith(ToLowerCase(fileName), ".mdx")

----------------------------------------------------------------------------
(* The repository behind the GitHub REST API *)

\* the deployments explored: whether NEXT_PUBLIC_GITHUB_TOKEN is set, and the
\* branch list the repository answers listBranches with
\* the two versions of app/components/RepositoryExplorer.tsx
Versions == {"branch-aware", "simple"}

Deployments ==
  {[token |-> TRUE, list |-> <<"dev", "master">>],
   [token |-> TRUE, list |-> <<"legacy", "main">>],
   [token |-> FALSE, list |-> <<"master">>],
   [token |-> FALSE, list |-> <<"legacy", "dev">>]}

Dir(name, path) == [name |-> name, path |-> path, type |-> "dir"]
File(name, path) == [name |-> name, path |-> path, type |-> "file"]

\* the directory listings of each branch, by path ("" is the root)
Listing(b, path) ==
  IF b = "master" THEN
    CASE path = "" -> {Dir("content", "content"), File("README.md", "README.md")}
      [] path = "content" -> {File("a.md", "content/a.md"),
                              File("b.MDX", "content/b.MDX"),
                              Dir("d", "content/d")}
      [] path = "content/d" -> {File("c.md", "content/d/c.md")}
      [] OTHER -> {}
  ELSE IF b = "dev" THEN
    CASE path = "" -> {Dir("content", "content")}
      [] path = "content" -> {File("a.md", "content/a.md")}
      [] OTHER -> {}
  ELSE
    CASE path = "" -> {File("README.md", "README.md")}
      [] OTHER -> {}

IsDirOn(b, path) == Listing(b, path) # {}

\* the files whose bytes the model tracks
FileKeys == {<<"master", "content/a.md">>, <<"master", "content/b.MDX">>,
             <<"master", "content/d/c.md">>, <<"dev", "content/a.md">>}

FileName(path) ==
  CASE path = "content/a.md" -> "a.md"
    [] path = "content/b.MDX" -> "b.MDX"
    [] path = "content/d/c.md" -> "c.md"
    [] OTHER -> path

\* the bytes of the files before anyone writes
InitialBody(path) ==
  CASE path = "content/a.md" -> <<104, 105>>
    [] path = "content/b.MDX" -> <<111, 107>>
    [] OTHER -> <<99>>

\* the blob sha: a hash of the bytes, free of collisions on the model's bodies
RECURSIVE ShaOf(_)
ShaOf(bytes) ==
  IF Len(bytes) = 0 THEN 0 ELSE (Head(bytes) + 1) + 257 * ShaOf(Tail(bytes))

\* the "content" field of a file response: base64 with a trailing newline
ContentField(bytes) ==
  IF Len(bytes) = 0 THEN <<>> ELSE Base64Encode(bytes) \o <<65>>

\* GET /repos/{owner}/{repo}/contents/{path}?ref={b} of a file
FileResponse(b, path) ==
  [name |-> FileName(path), path |-> path, type |-> "file",
   content |-> ContentField(remote[<<b, path>>]), encoding |-> "base64",
   sha |-> ShaOf(remote[<<b, path>>])]

\* PUT /repos/{owner}/{repo}/contents/{path} is accepted only with the sha of
\* the blob it replaces
PutAccepted(b, path, sha) ==
  <<b, path>> \in FileKeys /\ ShaOf(remote[<<b, path>>]) = sha

----------------------------------------------------------------------------
(* Handler invocations suspended at an await *)

\* one invocation, waiting for the response to the one request it has issued;
\* branch, path, sha, content and expanded are the values its closure holds,
\* nreq counts the requests it has issued so far
Task(kind, pc, branch, path) ==
  [kind |-> kind, pc |-> pc, branch |-> branch, path |-> path, sha |-> 0,
   content |-> <<>>, text |-> <<>>, expanded |-> {}, nreq |-> 1]

One(t) == SetToBag({t})
Waiting(pc) == {t \in BagToSet(tasks) : t.pc = pc}

\* what a request can come back as: the server's answer, or a failure in transit
Outcomes == {"ok", "fail"}

\* the clicks and failures of one behaviour
Budget == IF version = "simple" THEN MaxClicks ELSE MaxEvents

Transit(outcome) ==
  /\ outcome = "fail" => events < Budget
  /\ events' = IF outcome = "fail" THEN events + 1 ELSE events

\* a step of the environment that counts
Event ==
  /\ events < Budget
  /\ events' = events + 1

\* err instanceof Error ? err.message : <fallback>; Octokit rejects with an Error
ErrorMessage(err, fallback) == IF err # Null THEN err ELSE fallback

----------------------------------------------------------------------------
(* Rendering *)

\* the editor behind mdxEditorRef is mounted              (part_002:601-636)
MdxRefCurrent ==
  /\ selectedFile # NoFile
  /\ isEditing
  /\ isMdxEditorMode
  /\ isMdxFile(selectedFile.name)

\* the editor takes its markdown prop when it mounts and keeps its own document
MdxNext(kept) ==
  IF MdxRefCurrent'
  THEN IF MdxRefCurrent THEN kept ELSE selectedFile'.content
  ELSE <<>>

\* renderTreeItem: the entries drawn for file and below it
RECURSIVE renderTreeItem(_)
renderTreeItem(file) ==
  LET isExpanded == file.path \in expandedFolders
      children == IF file.path \in DOMAIN folderContents
                  THEN folderContents[file.path].items ELSE {}
  IN  {file} \cup
      IF file.type = "dir" /\ isExpanded /\ children # {}
      THEN UNION {renderTreeItem(child) : child \in children}
      ELSE {}

\* the file tree                                          (part_002:545-555)
Rendered == UNION {renderTreeItem(files[i]) : i \in 1..Len(files)}

----------------------------------------------------------------------------
(* Effects *)

\* "Auto-fetch content when branches are loaded", registered twice
AutoFetchRuns(brs, sel) == Len(brs) > 0 /\ sel # ""

\* the effect registered a third time
RepoTasksThrice(sel) ==
  LET t == Task("fetchRepoContents", "root", sel, "")
  IN  One(t) (+) One(t) (+) One(t)

\* the two fetchRepoContents() invocations the two effects start
RepoTasks(sel) ==
  LET t == Task("fetchRepoContents", "root", sel, "") IN One(t) (+) One(t)

\* a listing request of path is noted
NoteRequested(req, path) == req \cup {path}

----------------------------------------------------------------------------
Init ==
  /\ mounted = FALSE
  /\ \E d \in Deployments : hasToken = d.token /\ remoteBranches = d.list
  /\ files = <<>>
  /\ selectedFile = NoFile
  /\ loading = FALSE
  /\ error = Null
  /\ isEditing = FALSE
  /\ editedContent = <<>>
  /\ commitMessage = ""
  /\ saveLoading = FALSE
  /\ branches = <<>>
  /\ selectedBranch = "main"
  /\ branchLoading = FALSE
  /\ expandedFolders = {}
  /\ folderContents = <<>>
  /\ isMdxEditorMode = FALSE
  /\ mdxMarkdown = <<>>
  /\ tasks = EmptyBag
  /\ remote = [k \in FileKeys |-> InitialBody(k[2])]
  /\ events = 0
  /\ listRequested = {}
  /\ editSession = [path |-> "", sha |-> 0]
  /\ version \in Versions
  \* the simple explorer is explored on one deployment
  /\ version = "simple" => ~hasToken /\ remoteBranches = <<"master">>
  /\ simpleMounted = FALSE
  /\ repo = "ocktokit-poc"
  /\ simpleFiles = {}
  /\ simpleSelectedFile = NoFile
  /\ currentPath = ""
  /\ simpleLoading = FALSE
  /\ simpleError = Null
  /\ breadcrumbs = <<>>
  /\ simpleTasks = EmptyBag

\* the explorer without branches
simpleVars == <<version, simpleMounted, repo, simpleFiles, simpleSelectedFile,
                currentPath, simpleLoading, simpleError, breadcrumbs,
                simpleTasks>>
editVars == <<isEditing, editedContent, commitMessage, isMdxEditorMode, mdxMarkdown>>
treeVars == <<files, expandedFolders, folderContents>>
branchVars == <<branches, selectedBranch, branchLoading>>
srvVars == <<remoteBranches, remote>>
repoVars == <<srvVars, events>>
ghostVars == <<listRequested>>

\* the two "Initial load" effects and the two "Clear state" effects of the
\* first render
Mount ==
  /\ version = "branch-aware"
  /\ ~mounted
  /\ mounted' = TRUE
  /\ branchLoading' = TRUE
  /\ error' = Null
  /\ LET t == Task("fetchBranches", "listBranches", selectedBranch, "")
     IN  tasks' = tasks (+) One(t) (+) One(t)
  /\ expandedFolders' = {}
  /\ folderContents' = <<>>
  /\ selectedFile' = NoFile
  /\ isEditing' = FALSE
  /\ isMdxEditorMode' = FALSE
  /\ UNCHANGED <<hasToken, simpleVars, editSession, files, loading, editedContent, commitMessage,
                 saveLoading, branches, selectedBranch, repoVars, ghostVars>>
  /\ mdxMarkdown' = MdxNext(mdxMarkdown)

\* the default taken to be 'main' whatever the list holds
DefaultBranchMain(branchNames) == "main"

\* branchNames.find(name => name === 'main' || name === 'master') || branchNames[0]
DefaultBranch(branchNames) ==
  LET hits == {i \in 1..Len(branchNames) :
                 branchNames[i] = "main" \/ branchNames[i] = "master"}
  IN  IF hits # {} THEN branchNames[CHOOSE i \in hits : \A j \in hits : i <= j]
      ELSE IF Len(branchNames) > 0 THEN branchNames[1]
      ELSE ""

\* what a render with a new branches array and selection sel does: the
\* auto-fetch effects, and the clear effects when the selection changed
AfterBranchRender(brs, sel, rest) ==
  LET changed == sel # selectedBranch
      runs == AutoFetchRuns(brs, sel)
      req0 == IF changed THEN {} ELSE listRequested
  IN  /\ tasks' = IF runs THEN rest (+) RepoTasks(sel) ELSE rest
      /\ loading' = IF runs THEN TRUE ELSE loading
      /\ error' = IF runs THEN Null ELSE error
      /\ listRequested' = req0
      /\ IF changed /\ sel # ""
         THEN /\ expandedFolders' = {}
              /\ folderContents' = <<>>
              /\ selectedFile' = NoFile
              /\ isEditing' = FALSE
              /\ isMdxEditorMode' = FALSE
         ELSE UNCHANGED <<expandedFolders, folderContents, selectedFile,
                          isEditing, isMdxEditorMode>>
      /\ mdxMarkdown' = MdxNext(mdxMarkdown)

\* fetchBranches, after the await
ListBranchesResponse(t, outcome) ==
  /\ t \in Waiting("listBranches")
  /\ Transit(outcome)
  /\ IF outcome = "ok"
     THEN LET branchNames == remoteBranches
              sel == IF t.branch \in {branchNames[i] : i \in 1..Len(branchNames)}
                     THEN selectedBranch
                     ELSE IF DefaultBranch(branchNames) # ""
                          THEN DefaultBranch(branchNames)
                          ELSE selectedBranch
          IN  /\ branches' = branchNames
              /\ selectedBranch' = sel
              /\ AfterBranchRender(branchNames, sel, tasks (-) One(t))
     ELSE /\ error' = ErrorMessage("HttpError", "Failed to fetch branches")
          /\ tasks' = tasks (-) One(t)
          /\ UNCHANGED <<branches, selectedBranch, loading, expandedFolders,
                         folderContents, selectedFile, isEditing,
                         isMdxEditorMode, mdxMarkdown, ghostVars>>
  /\ branchLoading' = FALSE
  /\ UNCHANGED <<mounted, hasToken, simpleVars, editSession, files, editedContent, commitMessage,
                 saveLoading, srvVars>>

\* the branch selector's onChange                       (part_002:483-495)
SelectBranch(b) ==
  /\ mounted
  /\ ~branchLoading
  /\ b \in {branches[i] : i \in 1..Len(branches)}
  /\ b # selectedBranch
  /\ Event
  /\ selectedBranch' = b
  /\ AfterBranchRender(branches, b, tasks)
  /\ UNCHANGED <<mounted, hasToken, simpleVars, editSession, files, editedContent, commitMessage,
                 saveLoading, branches, branchLoading, srvVars>>

----------------------------------------------------------------------------
(* The file tree *)

\* setFolderContents(prev => new Map(prev.set(path, data)))
WithFolder(prev, path, b) ==
  (path :> [items |-> Listing(b, path), ref |-> b]) @@ prev

\* the root listing taken without the filter
ContentFolderUnfiltered(repoFiles) == repoFiles

\* contentFolder = repoFiles.find(file => file.name === 'content' && file.type === 'dir')
ContentFolder(repoFiles) ==
  {file \in repoFiles : file.name = "content" /\ file.type = "dir"}

\* fetchRepoContents(''), after the await of the root listing
RootListingResponse(t, outcome) ==
  /\ t \in Waiting("root")
  /\ Transit(outcome)
  /\ IF outcome = "ok" /\ IsDirOn(t.branch, "")
     THEN LET repoFiles == Listing(t.branch, "") IN
          IF ContentFolder(repoFiles) # {}
          THEN /\ files' = <<CHOOSE file \in ContentFolder(repoFiles) : TRUE>>
               /\ expandedFolders' = {"content"}
               \* await fetchFolderContents('content')
               /\ tasks' = (tasks (-) One(t)) (+)
                           One([t EXCEPT !.pc = "content", !.path = "content",
                                         !.nreq = @ + 1])
               /\ listRequested' = NoteRequested(listRequested, "content")
               /\ UNCHANGED <<error, loading>>
          ELSE /\ files' = <<>>
               /\ error' = "No \"content\" folder found in this repository"
               /\ loading' = FALSE
               /\ tasks' = tasks (-) One(t)
               /\ UNCHANGED <<expandedFolders, ghostVars>>
     ELSE /\ error' = ErrorMessage("HttpError", "Failed to fetch repository contents")
          /\ loading' = FALSE
          /\ tasks' = tasks (-) One(t)
          /\ UNCHANGED <<files, expandedFolders, ghostVars>>
  /\ UNCHANGED <<mounted, hasToken, simpleVars, editSession, selectedFile, isEditing, editedContent,
                 commitMessage, saveLoading, branchVars, folderContents,
                 isMdxEditorMode, srvVars>>
  /\ mdxMarkdown' = MdxNext(mdxMarkdown)

\* what the catch of fetchFolderContents does to error: console.error only
FolderFetchFailed(err) == error

\* fetchFolderContents('content') inside fetchRepoContents, after its await
ContentListingResponse(t, outcome) ==
  /\ t \in Waiting("content")
  /\ Transit(outcome)
  /\ IF outcome = "ok" /\ IsDirOn(t.branch, t.path)
     THEN /\ folderContents' = WithFolder(folderContents, t.path, t.branch)
          /\ error' = error
     ELSE /\ folderContents' = folderContents
          /\ error' = FolderFetchFailed("HttpError")
  /\ loading' = FALSE
  /\ tasks' = tasks (-) One(t)
  /\ UNCHANGED <<mounted, hasToken, simpleVars, editSession, files, selectedFile, isEditing,
                 editedContent, commitMessage, saveLoading, branchVars,
                 expandedFolders, isMdxEditorMode, srvVars, ghostVars>>
  /\ mdxMarkdown' = MdxNext(mdxMarkdown)

\* toggleFolder: "Fetch contents if not already loaded"
NeedsFetch(folderPath) == folderPath \notin DOMAIN folderContents

\* toggleFolder, up to its await or its end
toggleFolder(folderPath) ==
  /\ mounted
  /\ \E file \in Rendered : file.type = "dir" /\ file.path = folderPath
  /\ IF folderPath \in expandedFolders
     THEN /\ expandedFolders' = expandedFolders \ {folderPath}
          /\ UNCHANGED <<tasks, events, ghostVars>>
     ELSE IF NeedsFetch(folderPath)
     THEN /\ Event
          /\ tasks' = tasks (+)
               One([Task("toggleFolder", "folder", selectedBranch, folderPath)
                      EXCEPT !.expanded = expandedFolders \cup {folderPath}])
          /\ listRequested' = NoteRequested(listRequested, folderPath)
          /\ UNCHANGED expandedFolders
     ELSE /\ expandedFolders' = expandedFolders \cup {folderPath}
          /\ UNCHANGED <<tasks, events, ghostVars>>
  /\ UNCHANGED <<mounted, hasToken, simpleVars, editSession, files, selectedFile, loading, error,
                 isEditing, editedContent, commitMessage, saveLoading,
                 branchVars, folderContents, isMdxEditorMode, srvVars>>
  /\ mdxMarkdown' = MdxNext(mdxMarkdown)

\* toggleFolder, after the await of fetchFolderContents
FolderListingResponse(t, outcome) ==
  /\ t \in Waiting("folder")
  /\ Transit(outcome)
  /\ IF outcome = "ok" /\ IsDirOn(t.branch, t.path)
     THEN /\ folderContents' = WithFolder(folderContents, t.path, t.branch)
          /\ error' = error
     ELSE /\ folderContents' = folderContents
          /\ error' = FolderFetchFailed("HttpError")
  /\ expandedFolders' = t.expanded
  /\ tasks' = tasks (-) One(t)
  /\ UNCHANGED <<mounted, hasToken, simpleVars, editSession, files, selectedFile, loading, isEditing,
                 editedContent, commitMessage, saveLoading, branchVars,
                 isMdxEditorMode, srvVars, ghostVars>>
  /\ mdxMarkdown' = MdxNext(mdxMarkdown)

----------------------------------------------------------------------------
(* File content *)

\* the FileContent built from a file response            (part_002:195-213)
Snapshot(fileData, ref) ==
  [name |-> fileData.name, path |-> fileData.path,
   content |-> IF fileData.content # <<>>
               THEN IF fileData.encoding = "base64"
                    THEN atob(StripNewlines(fileData.content))
                    ELSE fileData.content
               ELSE <<>>,
   sha |-> fileData.sha, ref |-> ref]

\* handleFileClick, up to the await of fetchFileContent
handleFileClick(filePath) ==
  /\ mounted
  /\ \E file \in Rendered : file.type = "file" /\ file.path = filePath
  /\ Event
  /\ isEditing' = FALSE
  /\ isMdxEditorMode' = FALSE
  /\ loading' = TRUE
  /\ error' = Null
  /\ tasks' = tasks (+) One(Task("fetchFileContent", "file", selectedBranch, filePath))
  /\ UNCHANGED <<mounted, hasToken, simpleVars, editSession, files, selectedFile, editedContent,
                 commitMessage, saveLoading, branchVars, expandedFolders,
                 folderContents, srvVars, ghostVars>>
  /\ mdxMarkdown' = MdxNext(mdxMarkdown)

\* fetchFileContent, after the await
FileContentResponse(t, outcome) ==
  /\ t \in Waiting("file")
  /\ Transit(outcome)
  /\ IF outcome = "ok" /\ <<t.branch, t.path>> \in FileKeys
     THEN /\ selectedFile' = Snapshot(FileResponse(t.branch, t.path), t.branch)
          /\ error' = error
     ELSE /\ selectedFile' = selectedFile
          /\ error' = ErrorMessage("HttpError", "Failed to fetch file content")
  /\ loading' = FALSE
  /\ tasks' = tasks (-) One(t)
  /\ UNCHANGED <<mounted, hasToken, simpleVars, editSession, files, isEditing, editedContent,
                 commitMessage, saveLoading, branchVars, expandedFolders,
                 folderContents, isMdxEditorMode, srvVars, ghostVars>>
  /\ mdxMarkdown' = MdxNext(mdxMarkdown)

----------------------------------------------------------------------------
(* Editing *)

\* the "Edit Text" and "Edit MDX" buttons are rendered    (part_002:579-596)
EditButtons(useMdxEditor) ==
  /\ selectedFile # NoFile
  /\ ~isEditing
  /\ hasToken
  /\ useMdxEditor => isMdxFile(selectedFile.name)

startEditing(useMdxEditor) ==
  /\ mounted
  /\ EditButtons(useMdxEditor)
  /\ editedContent' = selectedFile.content
  /\ isEditing' = TRUE
  /\ isMdxEditorMode' = useMdxEditor
  /\ commitMessage' = "Update " \o selectedFile.name
  /\ editSession' = [path |-> selectedFile.path, sha |-> selectedFile.sha]
  /\ UNCHANGED <<mounted, hasToken, simpleVars, files, selectedFile, loading, error,
                 saveLoading, branchVars, expandedFolders, folderContents,
                 tasks, repoVars, ghostVars>>
  /\ mdxMarkdown' = MdxNext(mdxMarkdown)

\* the edit form is rendered                              (part_002:561, 601)
EditForm == selectedFile # NoFile /\ isEditing

\* cancelling that also closes the file
cancelEditingClosesFile ==
  /\ mounted
  /\ selectedFile # NoFile /\ isEditing
  /\ ~saveLoading
  /\ isEditing' = FALSE
  /\ isMdxEditorMode' = FALSE
  /\ editedContent' = <<>>
  /\ commitMessage' = ""
  /\ selectedFile' = NoFile
  /\ mdxMarkdown' = <<>>
  /\ UNCHANGED <<mounted, hasToken, simpleVars, editSession, files, loading, error,
                 saveLoading, branchVars, expandedFolders, folderContents,
                 tasks, repoVars, ghostVars>>

\* the Cancel button                                      (part_002:674-681)
cancelEditing ==
  /\ mounted
  /\ EditForm
  /\ ~saveLoading
  /\ isEditing' = FALSE
  /\ isMdxEditorMode' = FALSE
  /\ editedContent' = <<>>
  /\ commitMessage' = ""
  /\ UNCHANGED <<mounted, hasToken, simpleVars, editSession, files, selectedFile, loading, error,
                 saveLoading, branchVars, expandedFolders, folderContents,
                 tasks, repoVars, ghostVars>>
  /\ mdxMarkdown' = MdxNext(mdxMarkdown)

\* onChange of either textarea; the MDX one also calls setMarkdown
setEditedContent(value) ==
  /\ mounted
  /\ EditForm
  /\ value # editedContent
  /\ UNCHANGED events
  /\ editedContent' = value
  /\ mdxMarkdown' = IF MdxRefCurrent THEN value ELSE mdxMarkdown
  /\ UNCHANGED <<mounted, hasToken, simpleVars, editSession, files, selectedFile, loading, error,
                 isEditing, commitMessage, saveLoading, branchVars,
                 expandedFolders, folderContents, isMdxEditorMode, tasks,
                 srvVars, ghostVars>>

\* the user edits the document in the MDX editor itself
MdxEditorInput(value) ==
  /\ mounted
  /\ MdxRefCurrent
  /\ value # mdxMarkdown
  /\ UNCHANGED events
  /\ mdxMarkdown' = value
  /\ UNCHANGED <<mounted, hasToken, simpleVars, editSession, files, selectedFile, loading, error,
                 isEditing, editedContent, commitMessage, saveLoading,
                 branchVars, expandedFolders, folderContents, isMdxEditorMode,
                 tasks, srvVars, ghostVars>>

\* onChange of the commit message field
setCommitMessage(value) ==
  /\ mounted
  /\ EditForm
  /\ value # commitMessage
  /\ Event
  /\ commitMessage' = value
  /\ UNCHANGED <<mounted, hasToken, simpleVars, editSession, files, selectedFile, loading, error,
                 isEditing, editedContent, saveLoading, branchVars,
                 expandedFolders, folderContents, isMdxEditorMode, mdxMarkdown,
                 tasks, srvVars, ghostVars>>

----------------------------------------------------------------------------
(* Saving *)

\* the guard without its token half
SaveNeedsFile == selectedFile = NoFile

\* if (!selectedFile || !token)
SaveNeedsToken == selectedFile = NoFile \/ ~hasToken

\* the guard without trim()
SaveNeedsMessageUntrimmed == commitMessage = ""

\* if (!commitMessage.trim())
SaveNeedsMessage == Trim(commitMessage) = ""

\* "Get content from appropriate editor"
ContentToSave ==
  IF isMdxEditorMode /\ MdxRefCurrent THEN mdxMarkdown ELSE editedContent

\* the request without its sha parameter
PutTaskWithoutSha ==
  [Task("saveFileContent", "put", selectedBranch, selectedFile.path)
     EXCEPT !.content = btoa(ContentToSave),
            !.text = ContentToSave]

\* the invocation suspended at createOrUpdateFileContents, with the
\* parameters of the request
PutTask ==
  [Task("saveFileContent", "put", selectedBranch, selectedFile.path)
     EXCEPT !.sha = selectedFile.sha,
            !.content = btoa(ContentToSave),
            !.text = ContentToSave]

\* saveFileContent, up to its first await or its return
saveFileContent ==
  /\ IF SaveNeedsToken
     THEN /\ error' = "GitHub token is required to save files"
          /\ UNCHANGED <<saveLoading, tasks>>
     ELSE IF SaveNeedsMessage
     THEN /\ error' = "Commit message is required"
          /\ UNCHANGED <<saveLoading, tasks>>
     ELSE IF BtoaThrows(ContentToSave)
     THEN /\ error' = ErrorMessage("InvalidCharacterError", "Failed to save file")
          /\ saveLoading' = FALSE
          /\ UNCHANGED tasks
     ELSE /\ error' = Null
          /\ saveLoading' = TRUE
          /\ tasks' = tasks (+) One(PutTask)
  /\ UNCHANGED <<mounted, hasToken, simpleVars, editSession, files, selectedFile, loading, editVars,
                 branchVars, expandedFolders, folderContents, srvVars,
                 ghostVars>>

\* the Save Changes button is rendered and enabled        (part_002:682-688)
SaveButton == EditForm /\ ~(saveLoading \/ Trim(commitMessage) = "")

ClickSave ==
  /\ mounted
  /\ SaveButton
  /\ saveFileContent
  /\ UNCHANGED events

\* saveFileContent invoked while the button is not there to click: nothing
\* to save, or nothing to save it with
CallSave ==
  /\ mounted
  /\ ~SaveButton
  /\ selectedFile = NoFile \/ ~hasToken \/ Trim(commitMessage) = ""
  /\ saveFileContent
  /\ UNCHANGED events

\* a save that ends the edit session also when its PUT fails
PutResponseEndsSession(t, outcome) ==
  /\ t \in Waiting("put")
  /\ Transit(outcome)
  /\ IF outcome = "ok" /\ PutAccepted(t.branch, t.path, t.sha)
     THEN /\ remote' = [remote EXCEPT ![<<t.branch, t.path>>] = atob(t.content)]
          /\ loading' = TRUE
          /\ error' = Null
          /\ tasks' = (tasks (-) One(t)) (+)
                      One([t EXCEPT !.pc = "refresh", !.nreq = @ + 1])
          /\ UNCHANGED <<saveLoading, editVars>>
     ELSE /\ error' = ErrorMessage("HttpError", "Failed to save file")
          /\ saveLoading' = FALSE
          /\ tasks' = tasks (-) One(t)
          /\ isEditing' = FALSE
          /\ isMdxEditorMode' = FALSE
          /\ commitMessage' = ""
          /\ mdxMarkdown' = <<>>
          /\ UNCHANGED <<remote, loading, editedContent>>
  /\ UNCHANGED <<mounted, hasToken, simpleVars, editSession, files, selectedFile,
                 branchVars, expandedFolders, folderContents, remoteBranches,
                 ghostVars>>

\* saveFileContent, after the await of createOrUpdateFileContents
PutResponse(t, outcome) ==
  /\ t \in Waiting("put")
  /\ Transit(outcome)
  /\ IF outcome = "ok" /\ PutAccepted(t.branch, t.path, t.sha)
     THEN /\ remote' = [remote EXCEPT ![<<t.branch, t.path>>] = atob(t.content)]
          \* await fetchFileContent(selectedFile.path)
          /\ loading' = TRUE
          /\ error' = Null
          /\ tasks' = (tasks (-) One(t)) (+)
                      One([t EXCEPT !.pc = "refresh", !.nreq = @ + 1])
          /\ UNCHANGED saveLoading
     ELSE /\ error' = ErrorMessage("HttpError", "Failed to save file")
          /\ saveLoading' = FALSE
          /\ tasks' = tasks (-) One(t)
          /\ UNCHANGED <<remote, loading>>
  /\ UNCHANGED <<mounted, hasToken, simpleVars, editSession, files, selectedFile, editVars, branchVars,
                 expandedFolders, folderContents, remoteBranches,
                 ghostVars>>

\* saveFileContent, after the await of the refreshing fetchFileContent
RefreshResponse(t, outcome) ==
  /\ t \in Waiting("refresh")
  /\ Transit(outcome)
  /\ IF outcome = "ok" /\ <<t.branch, t.path>> \in FileKeys
     THEN /\ selectedFile' = Snapshot(FileResponse(t.branch, t.path), t.branch)
          /\ error' = error
     ELSE /\ selectedFile' = selectedFile
          /\ error' = ErrorMessage("HttpError", "Failed to fetch file content")
  /\ loading' = FALSE
  /\ isEditing' = FALSE
  /\ isMdxEditorMode' = FALSE
  /\ commitMessage' = ""
  /\ saveLoading' = FALSE
  /\ tasks' = tasks (-) One(t)
  /\ UNCHANGED <<mounted, hasToken, simpleVars, editSession, files, editedContent, branchVars,
                 expandedFolders, folderContents, srvVars, ghostVars>>
  /\ mdxMarkdown' = MdxNext(mdxMarkdown)

----------------------------------------------------------------------------
(* Other writers to the repository *)

\* a commit by someone else to the file the user has open
OtherWriter(key, body) ==
  /\ events < MaxEvents
  /\ key[2] = selectedFile.path
  /\ body # remote[key]
  /\ remote' = [remote EXCEPT ![key] = body]
  /\ events' = events + 1
  /\ UNCHANGED <<mounted, hasToken, simpleVars, editSession, files, selectedFile, loading, error,
                 editVars, saveLoading, branchVars, expandedFolders,
                 folderContents, tasks, remoteBranches, ghostVars>>

----------------------------------------------------------------------------
(* The explorer without branches (src/app/components/RepositoryExplorer.tsx) *)

\* what the branch-aware explorer holds, which this one leaves alone
explorerVars == <<mounted, hasToken, files, selectedFile, loading, error,
                  editVars, saveLoading, branchVars, expandedFolders,
                  folderContents, tasks, srvVars, ghostVars, editSession>>

\* the repository names of the model: the default and one the user types
Repos == {"ocktokit-poc", "other"}

\* the default branch of each repository (the requests carry no ref)
SimpleListing(r, path) ==
  IF r = "ocktokit-poc" THEN Listing("master", path)
  ELSE CASE path = "" -> {File("content", "content")}
         [] OTHER -> {}

\* the bytes of the file at path, <<>> where there is no file
SimpleBody(r, path) ==
  IF r = "ocktokit-poc" /\ <<"master", path>> \in FileKeys
  THEN remote[<<"master", path>>]
  ELSE IF (r = "ocktokit-poc" /\ path = "README.md")
          \/ (r = "other" /\ path = "content")
  THEN <<99>>
  ELSE <<>>

\* String.prototype.indexOf('/'), counted from 1; 0 when there is none
RECURSIVE SlashFrom(_, _)
SlashFrom(s, i) ==
  IF i > Len(s) THEN 0
  ELSE IF SubSeq(s, i, i) = "/" THEN i
  ELSE SlashFrom(s, i + 1)

\* no splitting at all
SplitWhole(s) == <<s>>

\* path.split('/')
RECURSIVE Split(_)
Split(s) ==
  LET i == SlashFrom(s, 1)
  IN  IF i = 0 THEN <<s>>
      ELSE <<SubSeq(s, 1, i - 1)>> \o Split(SubSeq(s, i + 1, Len(s)))

\* Array.prototype.join('/')
RECURSIVE Join(_)
Join(crumbs) ==
  IF Len(crumbs) = 0 THEN ""
  ELSE IF Len(crumbs) = 1 THEN crumbs[1]
  ELSE crumbs[1] \o "/" \o Join(Tail(crumbs))

\* an invocation of fetchRepoContents or fetchFileContent, suspended at its
\* getContent; owner and repo are read when it is called
SimpleTask(pc, path) == [pc |-> pc, path |-> path, repo |-> repo, nreq |-> 1]

SimpleWaiting(pc) == {t \in BagToSet(simpleTasks) : t.pc = pc}

\* fetchRepoContents(path), up to its await
fetchRepoContents(path) ==
  /\ simpleLoading' = TRUE
  /\ simpleError' = Null
  /\ simpleTasks' = simpleTasks (+) One(SimpleTask("list", path))
  /\ UNCHANGED <<version, repo, simpleFiles, simpleSelectedFile, currentPath,
                 breadcrumbs, explorerVars>>

\* the "Initial load" effect                                      (:189-194)
SimpleMount ==
  /\ version = "simple"
  /\ ~simpleMounted
  /\ simpleMounted' = TRUE
  /\ IF repo # ""
     THEN fetchRepoContents("")
     ELSE UNCHANGED <<simpleLoading, simpleError, simpleTasks, version, repo,
                      simpleFiles, simpleSelectedFile, currentPath,
                      breadcrumbs, explorerVars>>
  /\ UNCHANGED events

\* onChange of the repository name field                          (:222-230)
setRepo(value) ==
  /\ simpleMounted
  /\ value # repo
  /\ Event
  /\ repo' = value
  /\ UNCHANGED <<version, simpleMounted, simpleFiles, simpleSelectedFile,
                 currentPath, simpleLoading, simpleError, breadcrumbs,
                 simpleTasks, explorerVars>>

\* the Explore Repository button, and the root button of the breadcrumbs
\*                                                       (:235-241, 274-279)
ExploreRepository ==
  /\ simpleMounted
  /\ ~simpleLoading \/ simpleFiles # {}
  /\ Event
  /\ fetchRepoContents("")
  /\ UNCHANGED simpleMounted

\* the file list                                                  (:305-309)
handleFolderClick(folderPath) ==
  /\ simpleMounted
  /\ \E file \in simpleFiles : file.type = "dir" /\ file.path = folderPath
  /\ Event
  /\ fetchRepoContents(folderPath)
  /\ UNCHANGED simpleMounted

handleBreadcrumbClick(index) ==
  /\ simpleMounted
  /\ simpleFiles # {}
  /\ index \in 0..(Len(breadcrumbs) - 1)
  /\ Event
  /\ fetchRepoContents(Join(SubSeq(breadcrumbs, 1, index + 1)))
  /\ UNCHANGED simpleMounted

goBack ==
  /\ simpleMounted
  /\ simpleFiles # {}
  /\ Len(breadcrumbs) > 0
  /\ Event
  /\ fetchRepoContents(Join(SubSeq(breadcrumbs, 1, Len(breadcrumbs) - 1)))
  /\ UNCHANGED simpleMounted

\* handleFileClick -> fetchFileContent, up to its await
simpleHandleFileClick(filePath) ==
  /\ simpleMounted
  /\ \E file \in simpleFiles : file.type = "file" /\ file.path = filePath
  /\ Event
  /\ simpleLoading' = TRUE
  /\ simpleError' = Null
  /\ simpleTasks' = simpleTasks (+) One(SimpleTask("get", filePath))
  /\ UNCHANGED <<version, simpleMounted, repo, simpleFiles, simpleSelectedFile,
                 currentPath, breadcrumbs, explorerVars>>

\* the FileContent built from a file response                     (:98-115)
SimpleSnapshot(r, path) ==
  [name |-> FileName(path), path |-> path,
   content |-> atob(StripNewlines(ContentField(SimpleBody(r, path)))),
   encoding |-> "base64"]

\* fetchRepoContents, after the await of getContent
SimpleListingResponse(t, outcome) ==
  /\ t \in SimpleWaiting("list")
  /\ Transit(outcome)
  /\ IF outcome = "ok" /\ SimpleListing(t.repo, t.path) # {}
     THEN /\ simpleFiles' = SimpleListing(t.repo, t.path)
          /\ currentPath' = t.path
          /\ breadcrumbs' = IF t.path # "" THEN Split(t.path) ELSE <<>>
          /\ simpleLoading' = FALSE
          /\ simpleTasks' = simpleTasks (-) One(t)
          /\ UNCHANGED simpleError
     ELSE IF outcome = "ok" /\ SimpleBody(t.repo, t.path) # <<>>
     THEN \* "Single file": await fetchFileContent(fileData.path)
          /\ simpleLoading' = TRUE
          /\ simpleError' = Null
          /\ simpleTasks' = (simpleTasks (-) One(t)) (+)
                            One([t EXCEPT !.pc = "get", !.nreq = @ + 1])
          /\ UNCHANGED <<simpleFiles, currentPath, breadcrumbs>>
     ELSE /\ simpleError' = ErrorMessage("HttpError",
                                         "Failed to fetch repository contents")
          /\ simpleLoading' = FALSE
          /\ simpleTasks' = simpleTasks (-) One(t)
          /\ UNCHANGED <<simpleFiles, currentPath, breadcrumbs>>
  /\ UNCHANGED <<version, simpleMounted, repo, simpleSelectedFile,
                 explorerVars>>

\* fetchFileContent, after the await of getContent
SimpleFileResponse(t, outcome) ==
  /\ t \in SimpleWaiting("get")
  /\ Transit(outcome)
  /\ IF outcome = "ok" /\ SimpleBody(t.repo, t.path) # <<>>
     THEN /\ simpleSelectedFile' = SimpleSnapshot(t.repo, t.path)
          /\ UNCHANGED simpleError
     ELSE IF outcome = "ok" /\ SimpleListing(t.repo, t.path) # {}
     THEN \* a directory: fileData.type is undefined, nothing is stored
          UNCHANGED <<simpleSelectedFile, simpleError>>
     ELSE /\ simpleError' = ErrorMessage("HttpError",
                                         "Failed to fetch file content")
          /\ UNCHANGED simpleSelectedFile
  /\ simpleLoading' = FALSE
  /\ simpleTasks' = simpleTasks (-) One(t)
  /\ UNCHANGED <<version, simpleMounted, repo, simpleFiles, currentPath,
                 breadcrumbs, explorerVars>>

----------------------------------------------------------------------------
Next ==
  \/ Mount
  \/ \E t \in BagToSet(tasks), outcome \in Outcomes :
       \/ ListBranchesResponse(t, outcome)
       \/ RootListingResponse(t, outcome)
       \/ ContentListingResponse(t, outcome)
       \/ FolderListingResponse(t, outcome)
       \/ FileContentResponse(t, outcome)
       \/ PutResponse(t, outcome)
       \/ RefreshResponse(t, outcome)
  \/ \E b \in {"main", "dev", "master", "legacy"} : SelectBranch(b)
  \/ \E file \in Rendered : toggleFolder(file.path) \/ handleFileClick(file.path)
  \/ \E useMdxEditor \in BOOLEAN : startEditing(useMdxEditor)
  \/ cancelEditing
  \/ \E value \in Texts : setEditedContent(value) \/ MdxEditorInput(value)
  \/ \E value \in TypedMessages : setCommitMessage(value)
  \/ ClickSave
  \/ CallSave
  \/ \E key \in FileKeys, body \in OtherBodies : OtherWriter(key, body)
  \/ SimpleMount
  \/ \E value \in Repos : setRepo(value)
  \/ ExploreRepository
  \/ \E file \in simpleFiles :
       handleFolderClick(file.path) \/ simpleHandleFileClick(file.path)
  \/ \E index \in 0..(Len(breadcrumbs) - 1) : handleBreadcrumbClick(index)
  \/ goBack
  \/ \E t \in BagToSet(simpleTasks), outcome \in Outcomes :
       SimpleListingResponse(t, outcome) \/ SimpleFileResponse(t, outcome)

Spec == Init /\ [][Next]_vars

----------------------------------------------------------------------------
(* Steps, as the properties below see them *)

\* an invocation is suspended that was not before the step
Started(t) == CopiesIn(t, tasks') > CopiesIn(t, tasks)
\* the step is the continuation of t
Resumed(t) == CopiesIn(t, tasks') < CopiesIn(t, tasks)
\* the request t waited for failed in transit
FailedInTransit(t) == Resumed(t) /\ events' = events + 1
\* a call of saveFileContent
SaveCalled == ClickSave \/ CallSave

TokenMessage == "GitHub token is required to save files"
MessageMessage == "Commit message is required"

----------------------------------------------------------------------------
(* C1 *)

\* C1: at most one request of the component is in flight at any time
C1_OneRequestInFlight == BagCardinality(tasks) <= 1

----------------------------------------------------------------------------
(* C2 *)

\* C2: whenever a request fails, the error state is a message once the handler
\* that issued it has finished (every handler finishes in the step that sees
\* the failure)
C2_FailureSetsError ==
  [][\A t \in BagToSet(tasks) : FailedInTransit(t) => error' # Null]_vars

----------------------------------------------------------------------------
(* C3 *)

\* C3: once no request is in flight, every entry of folderContents and the
\* selectedFile snapshot come from requests whose ref is selectedBranch
C3_DataOfSelectedBranch ==
  (mounted /\ BagCardinality(tasks) = 0) =>
    /\ \A path \in DOMAIN folderContents :
         folderContents[path].ref = selectedBranch
    /\ selectedFile # NoFile => selectedFile.ref = selectedBranch

----------------------------------------------------------------------------
(* C4 *)

\* C4: every PUT carries the path and the sha of the selectedFile snapshot, a
\* snapshot holds the sha of the content it holds, a PUT replaces a remote
\* file only when the file's sha is the one the PUT carries, and a PUT whose
\* sha is not the remote file's leaves the repository as it is and sets error
C4_SaveGuardedBySha ==
  [][/\ \A t \in BagToSet(tasks') :
          (Started(t) /\ t.pc = "put") =>
            /\ t.path = selectedFile.path
            /\ t.sha = selectedFile.sha
            /\ t.sha = ShaOf(selectedFile.content)
     /\ \A t \in Waiting("put") :
          Resumed(t) =>
            IF <<t.branch, t.path>> \in FileKeys
               /\ ShaOf(remote[<<t.branch, t.path>>]) = t.sha
            THEN \A key \in FileKeys :
                   remote'[key] # remote[key] => key = <<t.branch, t.path>>
            ELSE remote' = remote /\ error' # Null]_vars

\* a save of a file that another writer has changed since it was fetched has
\* been rejected
C4_StaleSaveRejected ==
  /\ selectedFile # NoFile
  /\ isEditing
  /\ ~saveLoading
  /\ error = "HttpError"
  /\ events = 2
  /\ <<selectedBranch, selectedFile.path>> \in FileKeys
  /\ remote[<<selectedBranch, selectedFile.path>>] \in OtherBodies
  /\ ShaOf(remote[<<selectedBranch, selectedFile.path>>]) # selectedFile.sha

----------------------------------------------------------------------------
(* C5 *)

\* the preconditions of C5 at the call of saveFileContent
C5_Pre ==
  /\ selectedFile # NoFile
  /\ hasToken
  /\ Trim(commitMessage) # ""
  /\ <<selectedBranch, selectedFile.path>> \in FileKeys
  /\ ShaOf(remote[<<selectedBranch, selectedFile.path>>]) = selectedFile.sha

\* C5: a save called with a file selected, a token, a commit message and the
\* remote sha unchanged issues the PUT of the edited text, and when its
\* refresh completes without a failure the remote content and
\* selectedFile.content are the edited text, selectedFile.sha is the remote
\* sha, isEditing is false and commitMessage is empty
C5_SaveSucceeds ==
  [][/\ (ClickSave /\ C5_Pre) =>
          \E t \in BagToSet(tasks') :
            Started(t) /\ t.pc = "put" /\ t.text = ContentToSave
     /\ \A t \in Waiting("refresh") :
          (Resumed(t) /\ events' = events
             /\ atob(t.content) = remote[<<t.branch, t.path>>]) =>
            /\ remote'[<<t.branch, t.path>>] = t.text
            /\ selectedFile'.content = t.text
            /\ selectedFile'.sha = ShaOf(remote'[<<t.branch, t.path>>])
            /\ ~isEditing'
            /\ commitMessage' = ""]_vars

----------------------------------------------------------------------------
(* C6 *)

\* C6: when toggleFolder on a collapsed directory has fetched its listing, the
\* path is expanded and folderContents maps it to the directory's immediate
\* children on selectedBranch
C6_ToggleShowsChildren ==
  [][\A t \in Waiting("folder") :
       (Resumed(t) /\ events' = events /\ IsDirOn(t.branch, t.path)) =>
         /\ t.path \in expandedFolders'
         /\ t.path \in DOMAIN folderContents'
         /\ folderContents'[t.path].items = Listing(selectedBranch', t.path)]_vars

----------------------------------------------------------------------------
(* C7 *)

\* C7 as stated: a step starts at most one request, and no handler invocation
\* goes on to a second one
C7_OneRequestPerEvent ==
  [][/\ BagCardinality(tasks') <= BagCardinality(tasks) + 1
     /\ \A t \in BagToSet(tasks') : t.nreq <= 1]_vars

\* C7, amended: a handler invocation issues at most two requests, the second
\* after the response to the first and only in fetchRepoContents (the listing
\* of content) and saveFileContent (the refreshing GET); one event starts at
\* most two invocations
C7_TwoRequestsPerInvocation ==
  [][/\ BagCardinality(tasks') <= BagCardinality(tasks) + 2
     /\ \A t \in BagToSet(tasks') :
          /\ t.nreq <= 2
          /\ t.nreq = 2 <=> t.pc \in {"content", "refresh"}
          /\ t.pc = "content" => t.kind = "fetchRepoContents"
          /\ t.pc = "refresh" => t.kind = "saveFileContent"]_vars

\* a save is at its second request while the two fetchRepoContents of a
\* branch selection are waiting for theirs
C7_SecondRequests ==
  /\ \E t \in BagToSet(tasks) : t.pc = "refresh" /\ t.nreq = 2
  /\ \E t \in BagToSet(tasks) : t.pc = "root" /\ CopiesIn(t, tasks) = 2

----------------------------------------------------------------------------
(* C8 *)

\* C8: between two changes of selectedBranch the listing of a folder path is
\* requested at most once, and expanding a folder whose listing is in
\* folderContents issues no request
C8_ListingsMemoized ==
  [][\A t \in BagToSet(tasks') :
       (Started(t) /\ t.pc \in {"content", "folder"}) =>
         /\ t.path \notin listRequested
         /\ t.pc = "folder" => t.path \notin DOMAIN folderContents]_vars

----------------------------------------------------------------------------
(* C9 *)

\* C9: without a token no PUT is ever in flight, and a call of saveFileContent
\* sets error to the token message and leaves selectedFile, isEditing,
\* editedContent, commitMessage and saveLoading as they are
C9_EditingRequiresToken ==
  [][~hasToken =>
       /\ \A t \in BagToSet(tasks') : t.pc # "put"
       /\ SaveCalled =>
            /\ error' = TokenMessage
            /\ tasks' = tasks
            /\ UNCHANGED <<selectedFile, isEditing, editedContent,
                           commitMessage, saveLoading>>]_vars

\* saveFileContent was called on a selected file without a token
C9_RefusedWithoutToken ==
  ~hasToken /\ selectedFile # NoFile /\ error = TokenMessage

----------------------------------------------------------------------------
(* C10 *)

\* C10 as stated: a call of saveFileContent with a blank commit message issues
\* no request, sets error to 'Commit message is required' and leaves
\* isEditing, editedContent and selectedFile as they are
C10_MessageRequired ==
  [][(SaveCalled /\ Trim(commitMessage) = "") =>
       /\ tasks' = tasks
       /\ error' = MessageMessage
       /\ UNCHANGED <<isEditing, editedContent, selectedFile>>]_vars

\* C10, amended: the same of a call with a file selected and a token
\* configured
C10_MessageRequiredAfterToken ==
  [][(SaveCalled /\ Trim(commitMessage) = "" /\ selectedFile # NoFile
        /\ hasToken) =>
       /\ tasks' = tasks
       /\ error' = MessageMessage
       /\ UNCHANGED <<isEditing, editedContent, selectedFile>>]_vars

\* saveFileContent was called with a commit message of blanks
C10_RefusedBlankMessage ==
  isEditing /\ commitMessage = "  " /\ error = MessageMessage

----------------------------------------------------------------------------
(* C11 *)

\* the invocations that wait for a getContent
GetContentPcs == {"root", "content", "folder", "file", "refresh"}

\* the getContent that t of the simple explorer waited for failed in transit
SimpleFailedInTransit(t) ==
  /\ CopiesIn(t, simpleTasks') < CopiesIn(t, simpleTasks)
  /\ events' = events + 1

\* C11: when a getContent request for a directory or a file fails (here: is
\* rejected in transit), the stored data is unchanged and nothing but error
\* and the loading flags changes in the client
C11_FailureKeepsState ==
  /\ [][\A t \in BagToSet(tasks) :
          (t.pc \in GetContentPcs /\ FailedInTransit(t)) =>
            UNCHANGED <<files, folderContents, selectedFile, expandedFolders,
                        editVars, branchVars>>]_vars
  /\ [][\A t \in BagToSet(simpleTasks) :
          SimpleFailedInTransit(t) =>
            UNCHANGED <<simpleFiles, currentPath, breadcrumbs,
                        simpleSelectedFile, repo>>]_vars

----------------------------------------------------------------------------
(* C12 *)

BranchNames(brs) == {brs[i] : i \in 1..Len(brs)}

\* C12: once a non-empty branch list is loaded, selectedBranch is one of its
\* branches; a fetchBranches that finds the selection missing from the list
\* selects the first 'main' or 'master' of the list, else its first branch;
\* and every contents GET and every PUT in flight carries a branch of the list
C12_SelectedBranchListed ==
  [][/\ branches' # <<>> =>
          /\ selectedBranch' \in BranchNames(branches')
          /\ \A t \in BagToSet(tasks') :
               t.pc # "listBranches" => t.branch \in BranchNames(branches')
     /\ \A t \in Waiting("listBranches") :
          (Resumed(t) /\ events' = events
             /\ selectedBranch \notin BranchNames(remoteBranches)) =>
            selectedBranch' =
              IF \E i \in 1..Len(remoteBranches) :
                   remoteBranches[i] \in {"main", "master"}
              THEN remoteBranches[
                     CHOOSE i \in 1..Len(remoteBranches) :
                       /\ remoteBranches[i] \in {"main", "master"}
                       /\ \A j \in 1..(i - 1) :
                            remoteBranches[j] \notin {"main", "master"}]
              ELSE remoteBranches[1]]_vars

\* the list holds neither 'main' nor 'master': its first branch is selected
\* and the root listing is requested for it
C12_FirstBranchSelected ==
  /\ branches = <<"legacy", "dev">>
  /\ selectedBranch = "legacy"
  /\ \E t \in BagToSet(tasks) : t.pc = "root" /\ t.branch = "legacy"

----------------------------------------------------------------------------
(* C13 *)

NoContentMessage == "No \"content\" folder found in this repository"

\* C13: files is empty or holds the one directory named 'content'; a
\* successful root listing without such a directory leaves files empty and
\* error the 'No "content" folder' message; one with it leaves 'content'
\* expanded and its listing requested
C13_OnlyContentAtRoot ==
  [][/\ files' \in {<<>>, <<[name |-> "content", path |-> "content",
                             type |-> "dir"]>>}
     /\ \A t \in Waiting("root") :
          (Resumed(t) /\ events' = events) =>
            IF \E f \in Listing(t.branch, "") :
                 f.name = "content" /\ f.type = "dir"
            THEN /\ "content" \in expandedFolders'
                 /\ \E u \in BagToSet(tasks') :
                      Started(u) /\ u.pc = "content" /\ u.path = "content"
            ELSE files' = <<>> /\ error' = NoContentMessage]_vars

\* the root of master holds a file beside content, and the tree holds content
\* alone, expanded, with its listing stored
C13_RootFiltered ==
  /\ selectedBranch = "master"
  /\ Len(files) = 1
  /\ "content" \in expandedFolders
  /\ "content" \in DOMAIN folderContents
  /\ Cardinality(Listing("master", "")) = 2

----------------------------------------------------------------------------
(* C14 *)

\* the PUT t waited for has failed: the handler goes on to no refresh
PutFailed(t) ==
  /\ t.pc = "put"
  /\ Resumed(t)
  /\ ~\E u \in BagToSet(tasks') : Started(u) /\ u.pc = "refresh"

\* C14: when the PUT of saveFileContent fails, the handler leaves isEditing,
\* isMdxEditorMode, editedContent, commitMessage and selectedFile as they
\* are, error is a message and saveLoading is false
C14_FailedSaveKeepsSession ==
  [][\A t \in Waiting("put") :
       PutFailed(t) =>
         /\ UNCHANGED <<isEditing, isMdxEditorMode, editedContent,
                        commitMessage, selectedFile>>
         /\ error' # Null
         /\ ~saveLoading']_vars

\* a save of changed text has failed in transit and the session is still open
C14_SessionAfterFailedSave ==
  /\ isEditing
  /\ ~saveLoading
  /\ error = "HttpError"
  /\ events = 2
  /\ BagCardinality(tasks) = 0
  /\ editedContent = <<233>>
  /\ commitMessage = "Update a.md"
  /\ selectedFile.path = "content/a.md"
  /\ selectedFile.content = <<104, 105>>
  /\ remote[<<selectedBranch, "content/a.md">>] = <<104, 105>>

----------------------------------------------------------------------------
(* C15 *)

\* C15: cancelEditing sets isEditing and isMdxEditorMode to false and
\* editedContent and commitMessage to empty, issues no request, and leaves
\* selectedFile, files, folderContents, expandedFolders, selectedBranch and
\* the repository as they are
C15_CancelDiscardsEdit ==
  [][cancelEditing =>
       /\ ~isEditing' /\ ~isMdxEditorMode'
       /\ editedContent' = <<>> /\ commitMessage' = ""
       /\ tasks' = tasks
       /\ UNCHANGED <<selectedFile, files, folderContents, expandedFolders,
                      selectedBranch, remote, remoteBranches>>]_vars

\* an edit with changed text is open in the MDX editor, and Cancel is enabled
C15_EditToDiscard ==
  /\ mounted
  /\ EditForm
  /\ ~saveLoading
  /\ isMdxEditorMode
  /\ editedContent # selectedFile.content
  /\ mdxMarkdown # selectedFile.content

----------------------------------------------------------------------------
(* C16 *)

\* files, currentPath and breadcrumbs describe one directory
SameDirectory ==
  /\ Join(breadcrumbs) = currentPath
  /\ \A i \in 1..Len(breadcrumbs) :
       breadcrumbs[i] # "" /\ SlashFrom(breadcrumbs[i], 1) = 0
  /\ IF simpleFiles = {}
     THEN currentPath = ""
     ELSE \E r \in Repos : simpleFiles = SimpleListing(r, currentPath)

\* the invocation of fetchRepoContents a step has started
SimpleStarted(t) ==
  /\ t.pc = "list"
  /\ simpleTasks' = simpleTasks (+) One(t)

\* path is the directory above the one shown
ParentOfCurrent(path) ==
  IF Len(breadcrumbs) = 1 THEN path = ""
  ELSE currentPath = path \o "/" \o breadcrumbs[Len(breadcrumbs)]

\* path is the directory the crumb at index names
CrumbOfCurrent(path, index) ==
  IF index + 1 = Len(breadcrumbs) THEN path = currentPath
  ELSE currentPath =
         path \o "/" \o Join(SubSeq(breadcrumbs, index + 2, Len(breadcrumbs)))

\* C16: in the simple explorer breadcrumbs is currentPath split on '/' (empty
\* for the root) and files is the listing returned for currentPath, whatever
\* the clicks and the order of the responses; goBack requests the path of all
\* breadcrumbs but the last, handleBreadcrumbClick(i) the path of the
\* breadcrumbs 0..i
C16_SameDirectory ==
  /\ [](version = "simple" => SameDirectory)
  /\ [][goBack =>
          \E t \in BagToSet(simpleTasks') :
            SimpleStarted(t) /\ ParentOfCurrent(t.path)]_vars
  /\ [][\A index \in 0..(Len(breadcrumbs) - 1) :
          handleBreadcrumbClick(index) =>
            \E t \in BagToSet(simpleTasks') :
              SimpleStarted(t) /\ CrumbOfCurrent(t.path, index)]_vars

\* content/d is shown, two crumbs deep, and the directory above it has been
\* requested
C16_BackFromSubfolder ==
  /\ version = "simple"
  /\ currentPath = "content/d"
  /\ breadcrumbs = <<"content", "d">>
  /\ simpleFiles = SimpleListing("ocktokit-poc", "content/d")
  /\ \E t \in BagToSet(simpleTasks) : t.pc = "list" /\ t.path = "content"

----------------------------------------------------------------------------
(* C17 *)

\* C17: every PUT carries the path and the sha of the snapshot on which
\* startEditing began the edit session whose text it sends
C17_SaveOfEditedFile ==
  [][\A t \in BagToSet(tasks') :
       (Started(t) /\ t.pc = "put") =>
         /\ t.path = editSession.path
         /\ t.sha = editSession.sha]_vars

----------------------------------------------------------------------------
(* C18 *)

\* C18: when saveFileContent completes after its PUT has succeeded, and the
\* repository still holds what the PUT wrote, selectedFile.sha is the
\* repository's sha of selectedFile.path on selectedBranch, also when the
\* refresh has failed
C18_HeldShaCurrent ==
  [][\A t \in Waiting("refresh") :
       (Resumed(t)
          /\ remote[<<t.branch, t.path>>] = atob(t.content)
          /\ selectedBranch' = t.branch
          /\ selectedFile'.path = t.path) =>
         selectedFile'.sha = ShaOf(remote'[<<t.branch, t.path>>])]_vars

====
